---- MODULE Spec2Model ----
(***************************************************************************)
(* Model of mdgo/conductivity.py: the charge-flux accumulator              *)
(* (calc_cond_msd), the diffusive-region selector                          *)
(* (choose_msd_fitting_region, with get_beta as its subroutine) and the    *)
(* conductivity estimator (conductivity_calculator).                       *)
(*                                                                         *)
(* Exponents (beta, beta_range) are kept in tenths: 10 stands for 1.0,     *)
(* 9 for 0.9, 20 for 2.0.  A float is a record [nan, v] so that the        *)
(* comparisons of a NaN behave as Python's do (every one is False).        *)
(***************************************************************************)
EXTENDS Integers, Sequences, FiniteSets, TLC

VARIABLES
    \* ---- choose_msd_fitting_region ----
    N,            \* len(time_array) = len(msd)
    pc,           \* position in the function: "loop", "check", "done", "raised"
    k,            \* index of the next logspace point, 0 .. NumRegions
    start,        \* local start of the last candidate
    end,          \* local end of the last candidate
    beta,         \* local beta of the last candidate
    beta_range,   \* local beta_range of the last candidate
    beta_best,    \* local beta_best
    start_final,  \* local start_final (Unbound until first assigned)
    end_final,    \* local end_final (Unbound until first assigned)
    warned,       \* whether the "not sufficiently linear" warning was printed
    \* history of the fold, read by the properties only
    hasAny,       \* some candidate has been accepted
    replaced,     \* the last iteration assigned beta_best/start_final/end_final
    gatedDists,   \* {} or {least |beta - 1| among candidates with beta_range < 2}
    anyReached,   \* some candidate had beta >= 0.9
    winLen,       \* number of points of the last window actually sliced
    \* ---- conductivity_calculator ----
    cArgs,        \* the arguments: time_array, cond_array, v, name, start, end, T, units
    cPc,          \* "call", "returned" or "raised"
    slope,        \* local slope (a rational), once the regression has run
    regressions,  \* number of calls of stats.linregress
    printed,      \* the messages printed, in order
    cond,         \* the value returned
    \* ---- calc_cond_msd ----
    aArgs,        \* the arguments: the trajectory, the molecules, run_start, the charges
    aPc,          \* "frames" or "handed"
    ts,           \* index of the next frame of u.trajectory[run_start:]
    qr_temp,      \* local qr_temp
    qr,           \* local qr
    handed        \* what msd_fft was called with

selVars == <<N, pc, k, start, end, beta, beta_range, beta_best, start_final,
             end_final, warned, hasAny, replaced, gatedDists, anyReached, winLen>>
condVars == <<cArgs, cPc, slope, regressions, printed, cond>>
accVars == <<aArgs, aPc, ts, qr_temp, qr, handed>>

vars == <<selVars, condVars, accVars>>

----------------------------------------------------------------------------
(* Bounds *)

\* longest series length explored
MaxN == 24

(* Program constants *)

\* number of logspace points: np.logspace(..., 10)
NumRegions == 10
\* slope_tolerance = 2, in tenths
SlopeTolerance == 20
\* the 0.9 of "if beta_best < 0.9", in tenths
WarnBelow == 9
\* marker of a local that has not been assigned yet
Unbound == -1

----------------------------------------------------------------------------
(* Floats *)

Num(v) == [nan |-> FALSE, v |-> v]
NaN == [nan |-> TRUE, v |-> 0]

FLt(a, b) == ~a.nan /\ ~b.nan /\ a.v < b.v
FLe(a, b) == ~a.nan /\ ~b.nan /\ a.v <= b.v
FEq(a, b) == ~a.nan /\ ~b.nan /\ a.v = b.v

\* np.abs(x - 1)
AbsMinus1(x) == IF x.nan THEN NaN
                ELSE Num(IF x.v >= 10 THEN x.v - 10 ELSE 10 - x.v)

----------------------------------------------------------------------------
(* The three functions share no state: a specification of one of them      *)
(* leaves the variables of the other two at these values.                  *)

IdleSel ==
    /\ N = 0 /\ pc = "idle" /\ k = 0
    /\ start = Unbound /\ end = Unbound
    /\ beta = Num(0) /\ beta_range = Num(0) /\ beta_best = Num(0)
    /\ start_final = Unbound /\ end_final = Unbound
    /\ warned = FALSE /\ hasAny = FALSE /\ replaced = FALSE
    /\ gatedDists = {} /\ anyReached = FALSE /\ winLen = 0

IdleCond ==
    /\ cArgs = <<>> /\ cPc = "idle" /\ slope = <<>>
    /\ regressions = 0 /\ printed = <<>> /\ cond = <<>>

IdleAcc ==
    /\ aArgs = <<>> /\ aPc = "idle" /\ ts = 0
    /\ qr_temp = <<>> /\ qr = <<>> /\ handed = <<>>

----------------------------------------------------------------------------
(* Exact arithmetic on naturals too large for a machine integer: a number  *)
(* is the sequence of its base-1000 digits, least significant first.       *)

RECURSIVE BigMulAt(_, _, _, _)
BigMulAt(b, m, i, c) ==
    IF i > Len(b)
    THEN IF c = 0 THEN <<>> ELSE <<c % 1000>> \o BigMulAt(b, m, i, c \div 1000)
    ELSE LET t == b[i] * m + c
         IN  <<t % 1000>> \o BigMulAt(b, m, i + 1, t \div 1000)

BigMul(b, m) == BigMulAt(b, m, 1, 0)

RECURSIVE BigPowMul(_, _, _)
\* b * m^e
BigPowMul(b, m, e) == IF e = 0 THEN b ELSE BigPowMul(BigMul(b, m), m, e - 1)

BigDigit(a, i) == IF i <= Len(a) THEN a[i] ELSE 0

RECURSIVE BigCmpFrom(_, _, _)
BigCmpFrom(a, b, i) ==
    IF i = 0 THEN 0
    ELSE IF BigDigit(a, i) < BigDigit(b, i) THEN -1
    ELSE IF BigDigit(a, i) > BigDigit(b, i) THEN 1
    ELSE BigCmpFrom(a, b, i - 1)

BigCmp(a, b) == BigCmpFrom(a, b, IF Len(a) > Len(b) THEN Len(a) ELSE Len(b))

----------------------------------------------------------------------------
(* np.logspace(np.log10(2), np.log10(len(time_array) / 10), 10)            *)
(*                                                                         *)
(* Point j (0-based) is i_j = 2^((S-j)/S) * (n/10)^(j/S), S = NumRegions-1.*)
(* int(i_j * scale) is the largest s with                                  *)
(*      s^S * 10^j  <=  scale^S * 2^(S-j) * n^j.                           *)
(* Where the real value is an integer the float may fall one ulp short of  *)
(* it (10 ** log10(3.3) * 10 is 32.99999999999999), and int() then gives   *)
(* one less: `ulp = 1` turns the <= into <.                                *)

Steps == NumRegions - 1

PointAtLeast(s, scale, n, j, ulp) ==
    LET lhs == BigPowMul(BigPowMul(<<1>>, s, Steps), 10, j)
        rhs == BigPowMul(BigPowMul(BigPowMul(<<1>>, scale, Steps), 2, Steps - j), n, j)
        c   == BigCmp(lhs, rhs)
    IN  IF ulp = 1 THEN c < 0 ELSE c <= 0

\* int(i_j * scale)
IntOfPoint(scale, n, j, ulp) ==
    LET top == scale * (IF n > 20 THEN n ELSE 20)
    IN  CHOOSE s \in 0 .. top :
            /\ PointAtLeast(s, scale, n, j, ulp)
            /\ ~PointAtLeast(s + 1, scale, n, j, ulp)

\* Whether the float i_j can be short of the real value.  The first point is
\* 10 ** log10(2) whatever n is, and that is exactly 2.0 (so is every point
\* when n = 20, where all ten exponents are log10(2)); 10 ** log10(1.0) is
\* exactly 1.0.  Elsewhere the rounding of log10 and of the power decides.
UlpChoices(n, j) ==
    IF j = 0 \/ n = 20 \/ (j = Steps /\ n = 10) THEN {0} ELSE {0, 1}

\* int(i * 10) rounded up instead of truncated
EndOfRoundedUp(n, j, ulp) == IntOfPoint(10, n, j, ulp) + 1

\* start = int(i)
StartOf(n, j, ulp) == IntOfPoint(1, n, j, ulp)
\* end = int(i * 10)
EndOf(n, j, ulp) == IntOfPoint(10, n, j, ulp)

\* the table of the candidate windows, computed once
Windows == [n \in 1 .. MaxN |-> [j \in 0 .. Steps |-> [ulp \in {0, 1} |->
               [start |-> StartOf(n, j, ulp), end |-> EndOf(n, j, ulp)]]]]

----------------------------------------------------------------------------
(* get_beta *)

\* number of points of msd[start:end] on a series of n points
SliceLen(n, s, e) ==
    LET lo == IF s < n THEN s ELSE n
        hi == IF e < n THEN e ELSE n
    IN  IF hi > lo THEN hi - lo ELSE 0

\* np.gradient needs at least 2 points (edge_order + 1) and raises otherwise
GradientRaises(len) == len < 2

\* exponents a window can have, in tenths
BetaValues == {0, 5, 9, 15, 50}
\* dispersions a window can have, in tenths
RangeValues == {0, 20}

\* (beta, beta_range) of a window: any finite pair; a window that starts at
\* index 0 takes the log of time[0] and msd[0], which may be 0, and then
\* the gradient, its mean and its range are NaN
GetBetaResults(s) ==
    {<<Num(b), Num(r)>> : b \in BetaValues, r \in RangeValues}
        \cup (IF s = 0 THEN {<<NaN, NaN>>} ELSE {})

----------------------------------------------------------------------------
(* choose_msd_fitting_region *)

\* the condition without its "or beta_best == 0"
AcceptsWithoutSentinel(b, r, best) ==
    FLt(AbsMinus1(b), AbsMinus1(best)) /\ FLt(r, Num(SlopeTolerance))

\* the condition of the if of the loop body
Accepts(b, r, best) ==
    \/ FLt(AbsMinus1(b), AbsMinus1(best)) /\ FLt(r, Num(SlopeTolerance))
    \/ FEq(best, Num(0))

\* the warning with <= in place of <
WarnsAtThreshold(best) == FLe(best, Num(WarnBelow))

\* the condition of the warning
Warns(best) == FLt(best, Num(WarnBelow))

InitSel ==
    /\ N \in 1 .. MaxN
    /\ pc = "loop"
    /\ k = 0
    /\ start = Unbound /\ end = Unbound
    /\ beta = Num(0) /\ beta_range = Num(0)    \* not read before assigned
    /\ beta_best = Num(0)                       \* beta_best = 0
    /\ start_final = Unbound /\ end_final = Unbound
    /\ warned = FALSE
    /\ hasAny = FALSE /\ replaced = FALSE
    /\ gatedDists = {} /\ anyReached = FALSE
    /\ winLen = 0
    /\ IdleCond /\ IdleAcc

\* one pass of the for loop over the logspace points
Iterate ==
    /\ pc = "loop"
    /\ k < NumRegions
    /\ \E ulp \in UlpChoices(N, k) :
         LET w   == Windows[N][k][ulp]
             len == SliceLen(N, w.start, w.end)
         IN  /\ start' = w.start
             /\ end' = w.end
             /\ winLen' = len
             /\ IF GradientRaises(len)
                THEN /\ pc' = "raised"
                     /\ UNCHANGED <<k, beta, beta_range, beta_best, start_final,
                                    end_final, hasAny, replaced, gatedDists,
                                    anyReached>>
                ELSE \E res \in GetBetaResults(w.start) :
                       LET b  == res[1]
                           r  == res[2]
                           ok == Accepts(b, r, beta_best)
                       IN  /\ beta' = b
                           /\ beta_range' = r
                           /\ beta_best' = IF ok THEN b ELSE beta_best
                           /\ start_final' = IF ok THEN w.start ELSE start_final
                           /\ end_final' = IF ok THEN w.end ELSE end_final
                           /\ replaced' = ok
                           /\ hasAny' = (hasAny \/ ok)
                           /\ gatedDists' =
                                IF FLt(r, Num(SlopeTolerance))
                                THEN {CHOOSE d \in {AbsMinus1(b).v} \cup gatedDists :
                                        \A x \in {AbsMinus1(b).v} \cup gatedDists : d <= x}
                                ELSE gatedDists
                           /\ anyReached' = (anyReached \/ FLe(Num(WarnBelow), b))
                           /\ k' = k + 1
                           /\ pc' = IF k + 1 = NumRegions THEN "check" ELSE "loop"
    /\ UNCHANGED <<N, warned, condVars, accVars>>

\* the statements after the loop: the warning and the return
Finish ==
    /\ pc = "check"
    /\ warned' = Warns(beta_best)
    /\ pc' = "done"
    /\ UNCHANGED <<N, k, start, end, beta, beta_range, beta_best, start_final,
                   end_final, hasAny, replaced, gatedDists, anyReached, winLen,
                   condVars, accVars>>

NextSel == Iterate \/ Finish

SpecSel == InitSel /\ [][NextSel]_vars

----------------------------------------------------------------------------
(* Numbers of conductivity_calculator.  A value is                          *)
(*      n / d * 10^p10 * e2c^e * kb^b                                       *)
(* with n / d in lowest terms, n no multiple of 10 and d coprime to 10 (so  *)
(* that a value has one representation), where e2c and kb                   *)
(* stand for the literals 1.60217662e-19 and 1.38064852e-23.  Products and  *)
(* quotients are exact; the rounding of the floats is not modelled.         *)

RECURSIVE Gcd(_, _)
Gcd(a, b) == IF b = 0 THEN a ELSE Gcd(b, a % b)

AbsInt(a) == IF a < 0 THEN -a ELSE a

RECURSIVE StripTens(_, _, _)
StripTens(n, d, p) ==
    IF n % 10 = 0 THEN StripTens(n \div 10, d, p + 1)
    ELSE IF d % 2 = 0 THEN StripTens(n * 5, d \div 2, p - 1)
    ELSE IF d % 5 = 0 THEN StripTens(n * 2, d \div 5, p - 1)
    ELSE <<n, d, p>>

Val(n, d, p, e, b) ==
    IF n = 0 THEN [n |-> 0, d |-> 1, p10 |-> 0, e2c |-> 0, kb |-> 0]
    ELSE LET g  == Gcd(AbsInt(n), AbsInt(d))
             sn == IF d < 0 THEN -(n \div g) ELSE n \div g
             sd == AbsInt(d) \div g
             t  == StripTens(sn, sd, p)
         IN  [n |-> t[1], d |-> t[2], p10 |-> t[3], e2c |-> e, kb |-> b]

Rat(n, d) == Val(n, d, 0, 0, 0)
Whole(n) == Rat(n, 1)

Mul(x, y) == Val(x.n * y.n, x.d * y.d, x.p10 + y.p10, x.e2c + y.e2c, x.kb + y.kb)
Div(x, y) == Val(x.n * y.d, x.d * y.n, x.p10 - y.p10, x.e2c - y.e2c, x.kb - y.kb)

\* A2cm = 1e-8
A2cm == Val(1, 1, -8, 0, 0)
\* ps2s = 1e-12
ps2s == Val(1, 1, -12, 0, 0)
\* e2c = 1.60217662e-19
e2c == Val(1, 1, 0, 1, 0)
\* kb = 1.38064852e-23
kbReal == Val(1, 1, 0, 0, 1)

----------------------------------------------------------------------------
(* conductivity_calculator *)

\* longest series handed to the estimator
CondLen == 4
\* largest sample of cond_array
MaxMsd == 1

RECURSIVE SumFromTo(_, _, _)
\* f[lo] + ... + f[hi]
SumFromTo(f, lo, hi) == IF lo > hi THEN 0 ELSE f[lo] + SumFromTo(f, lo + 1, hi)

\* the slope of stats.linregress(x[s:e], y[s:e])
Linregress(x, y, s, e) ==
    LET n   == e - s
        sx  == SumFromTo(x, s + 1, e)
        sy  == SumFromTo(y, s + 1, e)
        sxy == SumFromTo([i \in DOMAIN x |-> x[i] * y[i]], s + 1, e)
        sxx == SumFromTo([i \in DOMAIN x |-> x[i] * x[i]], s + 1, e)
    IN  Rat(n * sxy - sx * sy, n * sxx - sx * sx)

\* an else branch that falls back to the reduced units instead of raising
UnitConversionsLenient(units) ==
    IF units = "real"
    THEN [supported |-> TRUE, kb |-> kbReal,
          convert |-> Mul(Div(Div(Mul(e2c, e2c), ps2s), A2cm), Whole(1000)),
          cond_units |-> "mS/cm"]
    ELSE [supported |-> TRUE, kb |-> Whole(1), convert |-> Whole(1),
          cond_units |-> "q^2/(tau sigma epsilon)"]

\* the if / elif / else on units
UnitConversions(units) ==
    IF units = "real"
    THEN [supported |-> TRUE, kb |-> kbReal,
          convert |-> Mul(Div(Div(Mul(e2c, e2c), ps2s), A2cm), Whole(1000)),
          cond_units |-> "mS/cm"]
    ELSE IF units = "lj"
    THEN [supported |-> TRUE, kb |-> Whole(1), convert |-> Whole(1),
          cond_units |-> "q^2/(tau sigma epsilon)"]
    ELSE [supported |-> FALSE, kb |-> Whole(1), convert |-> Whole(1), cond_units |-> ""]

\* the formula with the volume multiplied instead of divided
CondFormulaTimesVolume(sl, kb, T, v, convert) ==
    Mul(Mul(Div(Div(Div(sl, Whole(6)), kb), Whole(T)), Whole(v)), convert)

\* cond = slope / 6 / kb / T / v * convert
CondFormula(sl, kb, T, v, convert) ==
    Mul(Div(Div(Div(Div(sl, Whole(6)), kb), Whole(T)), Whole(v)), convert)

\* time arrays: 0, dt, 2 dt, ...
TimeArrays == {[i \in 1 .. CondLen |-> (i - 1) * dt] : dt \in {1, 2}}

InitCond ==
    /\ cArgs \in {a \in [time_array : TimeArrays,
                         cond_array : [1 .. CondLen -> 0 .. MaxMsd],
                         v : {1, 5}, name : {"sys"},
                         start : 0 .. CondLen, end : 0 .. CondLen,
                         T : {1, 3}, units : {"real", "lj", "metal"}] :
                    a.end - a.start >= 2}
    /\ cPc = "call"
    /\ slope = <<>>
    /\ regressions = 0
    /\ printed = <<>>
    /\ cond = <<>>
    /\ IdleSel /\ IdleAcc

conductivity_calculator ==
    /\ cPc = "call"
    /\ LET u == UnitConversions(cArgs.units)
       IN  IF ~u.supported
           THEN /\ cPc' = "raised"
                /\ UNCHANGED <<slope, regressions, printed, cond>>
           ELSE LET sl == Linregress(cArgs.time_array, cArgs.cond_array,
                                     cArgs.start, cArgs.end)
                    c  == CondFormula(sl, u.kb, cArgs.T, cArgs.v, u.convert)
                IN  /\ slope' = sl
                    /\ regressions' = regressions + 1
                    /\ cond' = c
                    /\ printed' = Append(printed, [name |-> cArgs.name, value |-> c,
                                                   cond_units |-> u.cond_units])
                    /\ cPc' = "returned"
    /\ UNCHANGED <<cArgs, selVars, accVars>>

NextCond == conductivity_calculator

SpecCond == InitCond /\ [][NextCond]_vars

----------------------------------------------------------------------------
(* calc_cond_msd *)

\* longest trajectory explored
MaxFrames == 2

\* centers of mass a molecule can have at a frame
Coms == {<<0, 0, 0>>, <<1, -2, 3>>}

VecAdd(a, b) == [c \in 1 .. 3 |-> a[c] + b[c]]
VecScale(a, q) == [c \in 1 .. 3 |-> a[c] * q]

RECURSIVE AddMolecules(_, _, _, _)
\* for molecule in mols: acc += molecule.center_of_mass() * charge
AddMolecules(acc, mols, frame, charge) ==
    IF mols = <<>> THEN acc
    ELSE AddMolecules(VecAdd(acc, VecScale(frame[Head(mols)], charge)),
                      Tail(mols), frame, charge)

\* the molecules of anions.split("residue") and cations.split("residue")
AnionList(a) == [i \in 1 .. a.nAnions |-> i]
CationList(a) == [i \in 1 .. a.nCations |-> a.nAnions + i]

\* u.trajectory[run_start:] starts at frame run_start, or is empty
FirstFrame(a) == IF a.run_start < a.nFrames THEN a.run_start ELSE a.nFrames

\* the body of the frame loop with qr_temp created once, before the loop
FrameVectorCarried(prev, a, f) ==
    AddMolecules(AddMolecules(prev, AnionList(a), a.traj[f + 1], a.anion_charge),
                 CationList(a), a.traj[f + 1], a.cation_charge)

\* the body of the frame loop: qr_temp = np.zeros(3), then the two sums
FrameVector(prev, a, f) ==
    AddMolecules(AddMolecules(<<0, 0, 0>>, AnionList(a), a.traj[f + 1], a.anion_charge),
                 CationList(a), a.traj[f + 1], a.cation_charge)

AccArgs ==
    UNION {[traj : [1 .. nf -> [1 .. na + nc -> Coms]],
            nFrames : {nf}, nAnions : {na}, nCations : {nc},
            run_start : 0 .. nf + 1,
            cation_charge : {1, 2}, anion_charge : {-1}] :
              nf \in 1 .. MaxFrames, na \in {1, 2}, nc \in {1, 2}}

InitAcc ==
    /\ aArgs \in AccArgs
    /\ aPc = "frames"
    /\ ts = FirstFrame(aArgs)
    /\ qr_temp = <<0, 0, 0>>
    /\ qr = <<>>
    /\ handed = <<>>
    /\ IdleSel /\ IdleCond

\* one pass of the loop over the frames
FrameStep ==
    /\ aPc = "frames"
    /\ ts < aArgs.nFrames
    /\ qr_temp' = FrameVector(qr_temp, aArgs, ts)
    /\ qr' = Append(qr, qr_temp')
    /\ ts' = ts + 1
    /\ UNCHANGED <<aArgs, aPc, handed, selVars, condVars>>

\* return msd_fft(np.array(qr))
CallMsdFft ==
    /\ aPc = "frames"
    /\ ts = aArgs.nFrames
    /\ handed' = qr
    /\ aPc' = "handed"
    /\ UNCHANGED <<aArgs, ts, qr_temp, qr, selVars, condVars>>

NextAcc == FrameStep \/ CallMsdFft

SpecAcc == InitAcc /\ [][NextAcc]_vars

----------------------------------------------------------------------------
(* Properties of choose_msd_fitting_region, checked under SpecSel *)

\* C1: the beta returned is at least as close to 1 as every candidate whose
\* beta_range is below 2: |beta_best - 1| <= |beta_k - 1| for each of them.
C1_ReturnedClosestAmongGated ==
    pc = "done" =>
        \A d \in gatedDists : FLe(AbsMinus1(beta_best), Num(d))

C3_WindowInsideSeries ==
    pc = "done" =>
        /\ 0 <= start_final
        /\ start_final < end_final
        /\ end_final <= N

\* C4 as stated: every window examined has end = start * 10.
C4_EndIsTenTimesStart ==
    start # Unbound => end = start * 10

\* C4 amended: start = int(i) and end = int(i * 10) for the same logspace
\* point i, so 10 * start <= end <= 10 * start + 9 for every window examined
\* and for the window returned.
C4_EndWithinDecadeOfPoint ==
    /\ start # Unbound => 10 * start <= end /\ end <= 10 * start + 9
    /\ pc = "done" => 10 * start_final <= end_final /\ end_final <= 10 * start_final + 9

\* a window returned whose end is not ten times its start
C4_Witness == pc = "done" /\ end_final # 10 * start_final

\* C8: a pass of the loop assigns the best only if no candidate has been
\* accepted yet, or the candidate is strictly closer to 1 than the incumbent
\* and its beta_range is below 2.
C8_ReplacesOnlyIfFirstOrBetter ==
    [][(pc = "loop" /\ k' = k + 1 /\ replaced') =>
          \/ ~hasAny
          \/ /\ FLt(AbsMinus1(beta'), AbsMinus1(beta_best))
             /\ FLt(beta_range', Num(20))]_vars

\* C9: every window handed to get_beta starts at an index >= 1 and holds at
\* least 3 points once sliced.
C9_GetBetaPreconditions ==
    start # Unbound => start >= 1 /\ winLen >= 3

\* C10 as stated: every execution examines 10 candidates and returns an
\* assigned window.
C10_AlwaysReturnsWindow ==
    /\ pc # "raised"
    /\ pc = "done" => k = 10 /\ start_final # Unbound /\ end_final # Unbound

\* C10 amended: the first candidate is accepted whatever its beta and
\* beta_range, so an execution that reaches the return has examined 10
\* candidates and start_final and end_final are assigned; the only other
\* outcome is get_beta raising on the first window, which needs N <= 3.
C10_ReturnsWindowUnlessFirstWindowTooShort ==
    /\ k >= 1 => hasAny /\ start_final # Unbound /\ end_final # Unbound
    /\ pc \in {"check", "done"} => k = 10 /\ start_final # Unbound /\ end_final # Unbound
    /\ pc = "raised" => N <= 3 /\ k = 0 /\ winLen < 2

\* a return whose first candidate failed the noise gate and was still the
\* only one accepted
C10_Witness ==
    /\ pc = "done" /\ start_final = 2 /\ end_final = 20
    /\ FEq(beta_best, Num(50)) /\ gatedDists = {}

----------------------------------------------------------------------------
(* Properties of conductivity_calculator, checked under SpecCond *)

\* C5: with units neither "real" nor "lj" the call raises, the regression
\* has not run, nothing is printed and nothing is returned.
C5_UnsupportedUnitsRaiseFirst ==
    (cPc # "call" /\ cArgs.units \notin {"real", "lj"}) =>
        /\ cPc = "raised"
        /\ regressions = 0
        /\ printed = <<>>
        /\ cond = <<>>

\* a call with unsupported units that has ended
C5_Witness == cPc = "raised" /\ cArgs.units = "metal"

\* the window's points, centred and scaled by their number
Centred(f, s, e, i) == (e - s) * f[i] - SumFromTo(f, s + 1, e)

RECURSIVE TenTo(_)
TenTo(p) == IF p = 0 THEN 1 ELSE 10 * TenTo(p - 1)

\* numerator and denominator of a plain rational x
NumeratorOf(x) == IF x.p10 >= 0 THEN x.n * TenTo(x.p10) ELSE x.n
DenominatorOf(x) == IF x.p10 >= 0 THEN x.d ELSE x.d * TenTo(-x.p10)

\* C6: slope is the least-squares slope of cond_array against time_array over
\* [start, end); for "lj" the value returned is slope / (6 T v), for "real"
\* it is slope / (6 kb T v) * (e2c^2 / ps2s / A2cm * 1000); one message is
\* printed and it carries the value returned.
C6_ConductivityFormula ==
    cPc = "returned" =>
        LET a   == cArgs
            den == Whole(6 * a.T * a.v)
        IN  /\ SumFromTo([i \in 1 .. CondLen |->
                            Centred(a.time_array, a.start, a.end, i)
                              * (DenominatorOf(slope)
                                     * Centred(a.cond_array, a.start, a.end, i)
                                   - NumeratorOf(slope)
                                     * Centred(a.time_array, a.start, a.end, i))],
                         a.start + 1, a.end) = 0
            /\ slope.e2c = 0 /\ slope.kb = 0
            /\ a.units = "lj" => cond = Div(slope, den)
            /\ a.units = "real" =>
                 cond = Mul(Div(slope, Mul(den, kbReal)),
                            Val(1, 1, 23, 2, 0))
            /\ Len(printed) = 1
            /\ printed[1].value = cond
            /\ printed[1].name = a.name
            /\ regressions = 1

\* a call in real units on a sloping window of a cell of volume 5
C6_Witness ==
    /\ cPc = "returned" /\ cArgs.units = "real"
    /\ slope.n # 0 /\ cArgs.v = 5 /\ cArgs.T = 3

----------------------------------------------------------------------------
(* Properties of calc_cond_msd, checked under SpecAcc *)

RECURSIVE SumOver(_, _)
\* the sum of g over the set S
SumOver(g, S) ==
    IF S = {} THEN 0
    ELSE LET m == CHOOSE x \in S : TRUE IN g[m] + SumOver(g, S \ {m})

\* qr(t) at frame f (1-based), coordinate by coordinate
ChargeVector(a, f) ==
    [c \in 1 .. 3 |->
        SumOver([m \in 1 .. a.nAnions + a.nCations |->
                    a.traj[f][m][c]
                      * (IF m <= a.nAnions THEN a.anion_charge ELSE a.cation_charge)],
                1 .. a.nAnions + a.nCations)]

\* C7: msd_fft receives one vector per frame from run_start to the last
\* frame, in frame order, each the charge-weighted sum of the centers of mass
\* at that frame; with one cation, one anion and the default charges it is
\* cation_position - anion_position.
C7_OneChargeVectorPerFrame ==
    aPc = "handed" =>
        LET a == aArgs
        IN  /\ Len(handed) = (IF a.run_start < a.nFrames
                              THEN a.nFrames - a.run_start ELSE 0)
            /\ \A j \in 1 .. Len(handed) :
                 /\ handed[j] = ChargeVector(a, a.run_start + j)
                 /\ (a.nAnions = 1 /\ a.nCations = 1 /\ a.cation_charge = 1) =>
                      handed[j] = [c \in 1 .. 3 |->
                                      a.traj[a.run_start + j][2][c]
                                        - a.traj[a.run_start + j][1][c]]

\* a hand-over of two different non-zero vectors
C7_Witness ==
    /\ aPc = "handed" /\ Len(handed) = 2
    /\ handed[1] # handed[2]
    /\ handed[1] # <<0, 0, 0>> /\ handed[2] # <<0, 0, 0>>

====
